---- MODULE Spec2Model ----
(***************************************************************************)
(* go2ts: the recursive type mapper (GoTypeToTSType and its helpers) and   *)
(* the generic splitter (SplitGenericType) of internal/parser/parser.go.   *)
(*                                                                         *)
(* Go strings are TLA+ strings; a byte of a string s is SubSeq(s, i, i).   *)
(* Indices returned by Index and LastIndex are Go's (0-based, -1 when the  *)
(* substring is absent).  A Go map[string]string is a function whose       *)
(* DOMAIN is its key set; the visited map[string]bool, which the code only *)
(* ever writes `true` into, is the set of its keys.                        *)
(***************************************************************************)
EXTENDS Integers, Sequences, FiniteSets, TLC

\* ------------------------------------------------------------------ bounds
\* Deepest nesting of GoTypeToTSType calls (and most iterations of the key
\* resolution loop) the model follows; a call beyond it is reported as
\* not having returned (div).
MaxDepth == 8
\* Most wrappers (pointer, slice, map, generic, inline record) put around an
\* atom to build an input expression.
MaxWrap == 1
\* Most parameters written between the brackets of a SplitGenericType input.
MaxParams == 2

\* ------------------------------------------------- strings (Go's package)
WhiteSpace == {" ", "\t", "\n", "\r"}

Char(s, i) == SubSeq(s, i, i)

MinOf(S) == CHOOSE x \in S : \A y \in S : x <= y

MaxOf(S) == CHOOSE x \in S : \A y \in S : x >= y

\* strings.TrimSpace
TrimSpace(s) ==
    LET keep == {i \in 1..Len(s) : Char(s, i) \notin WhiteSpace}
    IN  IF keep = {} THEN "" ELSE SubSeq(s, MinOf(keep), MaxOf(keep))

\* strings.HasPrefix
HasPrefix(s, p) == Len(s) >= Len(p) /\ SubSeq(s, 1, Len(p)) = p

\* strings.HasSuffix
HasSuffix(s, p) == Len(s) >= Len(p) /\ SubSeq(s, Len(s) - Len(p) + 1, Len(s)) = p

\* The 1-based positions at which sub occurs in s.
Occurrences(s, sub) ==
    {i \in 1..(Len(s) - Len(sub) + 1) : SubSeq(s, i, i + Len(sub) - 1) = sub}

\* strings.Index
Index(s, sub) ==
    IF Occurrences(s, sub) = {} THEN -1 ELSE MinOf(Occurrences(s, sub)) - 1

\* strings.LastIndex
LastIndex(s, sub) ==
    IF Occurrences(s, sub) = {} THEN -1 ELSE MaxOf(Occurrences(s, sub)) - 1

\* strings.Contains
Contains(s, sub) == Occurrences(s, sub) # {}

\* strings.ContainsAny
ContainsAny(s, chars) == \E i \in 1..Len(s) : Char(s, i) \in chars

\* strings.TrimPrefix
TrimPrefix(s, p) == IF HasPrefix(s, p) THEN SubSeq(s, Len(p) + 1, Len(s)) ELSE s

\* strings.TrimSuffix
TrimSuffix(s, p) == IF HasSuffix(s, p) THEN SubSeq(s, 1, Len(s) - Len(p)) ELSE s

\* strings.Split, for a one-byte separator
RECURSIVE Split(_, _)
Split(s, sep) ==
    IF Index(s, sep) < 0 THEN <<s>>
    ELSE <<SubSeq(s, 1, Index(s, sep))>>
         \o Split(SubSeq(s, Index(s, sep) + 2, Len(s)), sep)

\* strings.SplitN(s, sep, 2)
SplitN2(s, sep) ==
    IF Index(s, sep) < 0 THEN <<s>>
    ELSE <<SubSeq(s, 1, Index(s, sep)), SubSeq(s, Index(s, sep) + 2, Len(s))>>

\* strings.Fields: the maximal runs of non-space bytes, in order
RECURSIVE Fields(_)
Fields(s) ==
    LET t    == TrimSpace(s)
        stop == {i \in 1..Len(t) : Char(t, i) \in WhiteSpace}
    IN  IF t = "" THEN <<>>
        ELSE IF stop = {} THEN <<t>>
        ELSE <<SubSeq(t, 1, MinOf(stop) - 1)>> \o Fields(SubSeq(t, MinOf(stop), Len(t)))

\* strings.Join
RECURSIVE Join(_, _)
Join(parts, sep) ==
    IF Len(parts) = 0 THEN ""
    ELSE IF Len(parts) = 1 THEN parts[1]
    ELSE parts[1] \o sep \o Join(Tail(parts), sep)

\* ------------------------------------------------------ genericTypePattern
Upper == {"A", "B", "C", "D", "E", "F", "G", "H", "I", "J", "K", "L", "M",
          "N", "O", "P", "Q", "R", "S", "T", "U", "V", "W", "X", "Y", "Z"}

Lower == {"a", "b", "c", "d", "e", "f", "g", "h", "i", "j", "k", "l", "m",
          "n", "o", "p", "q", "r", "s", "t", "u", "v", "w", "x", "y", "z"}

Digit == {"0", "1", "2", "3", "4", "5", "6", "7", "8", "9"}

WordChar == Upper \cup Lower \cup Digit \cup {"_"}

\* regexp `[a-zA-Z0-9_]+\[.*\]`, MatchString (unanchored): a word byte
\* directly before a `[`, and a `]` later on the same line.
genericTypePattern(s) ==
    \E i \in 1..(Len(s) - 1) :
        /\ Char(s, i) \in WordChar
        /\ Char(s, i + 1) = "["
        /\ \E j \in (i + 2)..Len(s) :
               /\ Char(s, j) = "]"
               /\ \A k \in (i + 2)..(j - 1) : Char(s, k) # "\n"

\* ------------------------------------------------------- SplitGenericType
\* A `,` case that ends a parameter at every depth.
isSeparator_anyDepth(r, depth) == r = ","

\* The `,` case of the switch: a comma ends a parameter only at depth 0.
isSeparator(r, depth) == r = "," /\ depth = 0

\* The bracket cases of the switch.
nextDepth(r, depth) ==
    IF r = "[" THEN depth + 1 ELSE IF r = "]" THEN depth - 1 ELSE depth

\* A flush that appends the trimmed buffer even when it is empty.
flush_keepEmpty(parts, buf) == Append(parts, TrimSpace(buf))

\* The closure flush: the buffer, trimmed, is appended unless it is empty.
flush(parts, buf) ==
    IF TrimSpace(buf) # "" THEN Append(parts, TrimSpace(buf)) ELSE parts

\* The loop over paramStr, from byte i on, and the final flush.
RECURSIVE splitLoop(_, _, _, _, _)
splitLoop(paramStr, i, depth, buf, parts) ==
    IF i > Len(paramStr) THEN flush(parts, buf)
    ELSE IF isSeparator(Char(paramStr, i), depth)
         THEN splitLoop(paramStr, i + 1, depth, "", flush(parts, buf))
         ELSE splitLoop(paramStr, i + 1, nextDepth(Char(paramStr, i), depth),
                        buf \o Char(paramStr, i), parts)

\* The early return "no generics".
notGeneric(lidx, ridx) == lidx < 0 \/ ridx <= lidx

\* The parameters of a bracket text: one empty parameter for an empty text.
splitParams(paramStr) ==
    IF paramStr = "" THEN <<"">> ELSE splitLoop(paramStr, 1, 0, "", <<>>)

\* SplitGenericType; params = <<>> is the nil slice.
SplitGenericType(goType) ==
    LET lidx == Index(goType, "[")
        ridx == LastIndex(goType, "]")
    IN  IF notGeneric(lidx, ridx) THEN [base |-> goType, params |-> <<>>]
        ELSE [base   |-> SubSeq(goType, 1, lidx),
              params |-> splitParams(SubSeq(goType, lidx + 2, ridx))]

\* ------------------------------------------------------ the leaf checks
checkSpecialCases(goType) ==
    CASE goType = "[]byte" -> "Uint8Array"
      [] goType = "struct{}" -> "any"
      [] goType = "func" -> "(...args: any[]) => any"
      [] goType \in {"*time.Time", "*url.URL"} -> "string"
      [] OTHER -> ""

IsUserDefinedStruct(name, structMap) == name \in structMap

IsAliasName(typeName) == typeName # "" /\ Char(typeName, 1) \in Upper

checkBasicTypes(goType) ==
    CASE goType = "string" -> "string"
      [] goType \in {"int", "int8", "int16", "int32", "int64",
                     "uint", "uint8", "uint16", "uint32", "uint64",
                     "byte", "rune", "float32", "float64"} -> "number"
      [] goType = "bool" -> "boolean"
      [] goType = "time.Time" -> "string"
      [] goType = "url.URL" -> "string"
      [] goType \in {"interface{}", "*interface{}",
                     "interface {}", "*interface {}"} -> "any"
      [] goType \in {"complex64", "complex128"} -> "any"
      [] goType \in {"decimal.Decimal", "primitive.ObjectID",
                     "primitive.Decimal128", "uuid.UUID", "pgtype.UUID"} -> "string"
      [] goType = "sql.NullString" -> "string | null"
      [] goType = "sql.NullInt64" -> "number | null"
      [] goType = "pq.NullTime" -> "string | null"
      [] goType = "sql.NullBool" -> "boolean | null"
      [] goType = "unsafe.Pointer" -> "any"
      [] goType = "error" -> "Error"
      [] OTHER -> goType

\* A check that lets every name through.
checkComplexTypes_none(goType) == ""

checkComplexTypes(goType) ==
    IF Contains(goType, ".") THEN "any"
    ELSE IF ContainsAny(goType, {"*", "[", "]"}) THEN "any"
    ELSE ""

\* ------------------------------------------------ the recursive mapper
\* What a call hands back: the returned string, the visited set as the call
\* leaves it, and div = the call nested deeper than MaxDepth (did not return
\* within the bound).
Ret(r, v, dv) == [res |-> r, vis |-> v, div |-> dv]

\* A call that did not return within the bound.
NoReturn(v) == Ret("", v, TRUE)

\* `const minFieldParts = 2 // name, type`
minFieldParts == 2

\* `const mapTypeSplitLimit = 2`
mapTypeSplitLimit == 2

\* isVisited without the guard: no expression counts as being resolved.
isVisited_never(visited, goType) == FALSE

\* `if visited[goType]`
isVisited(visited, goType) == goType \in visited

\* markVisited that records nothing.
markVisited_none(visited, goType) == visited

\* `visited[goType] = true`
markVisited(visited, goType) == visited \cup {goType}

\* deferDelete that empties the map.
deferDelete_clear(visited, goType) == {}

\* deferDelete that leaves the entry in the map.
deferDelete_leak(visited, goType) == visited

\* `defer delete(visited, goType)`
deferDelete(visited, goType) == visited \ {goType}

\* `aliasResult != ""` without the test: the alias rule always returns.
aliasReturns_always(aliasResult) == TRUE

\* `aliasResult != ""`: the alias rule returns only a non-empty result.
aliasReturns(aliasResult) == aliasResult # ""

\* `for _, tp := range typeParams { if goType == tp ...`
isTypeParam(goType, typeParams) ==
    \E i \in DOMAIN typeParams : typeParams[i] = goType

\* A pointer rule that marks the result optional instead of nullable.
pointerResult_undefined(inner) == inner \o " | undefined"

\* `return inner + " | null"`
pointerResult(inner) == inner \o " | null"

\* A slice rule that parenthesises every element holding an index signature.
sliceResult_contains(elem) ==
    IF Contains(elem, "{ [key:")
    THEN "(" \o elem \o ")" \o "[]"
    ELSE elem \o "[]"

\* A slice rule that also parenthesises an element holding a union.
sliceResult_unions(elem) ==
    IF (HasPrefix(elem, "{ [key:") \/ Contains(elem, "|")) /\ ~HasPrefix(elem, "(")
    THEN "(" \o elem \o ")" \o "[]"
    ELSE elem \o "[]"

\* The slice rule's result for a mapped element.
sliceResult(elem) ==
    IF HasPrefix(elem, "{ [key:") /\ ~HasPrefix(elem, "(")
    THEN "(" \o elem \o ")" \o "[]"
    ELSE elem \o "[]"

\* The numeric key names of parseMapType's switch.
numericKeys == {"int", "int8", "int16", "int32", "int64",
                "uint", "uint8", "uint16", "uint32", "uint64"}

\* A key rule that keeps every mapped key.
coerceKey_keep(keyTS) == keyTS

\* `if keyTS != "string" && keyTS != "number" && keyTS != "symbol"`
coerceKey(keyTS) ==
    IF keyTS # "string" /\ keyTS # "number" /\ keyTS # "symbol"
    THEN "string" ELSE keyTS

\* A loop that never finds a key among the seen ones.
keySeen_never(visitedKeys, keyResolved) == FALSE

\* `if visitedKeys[keyResolved] { break }`
keySeen(visitedKeys, keyResolved) == keyResolved \in visitedKeys

\* `if base, ok := aliasMap[keyResolved]; ok && base != keyResolved`
keyHasAlias(aliasMap, keyResolved) ==
    keyResolved \in DOMAIN aliasMap /\ aliasMap[keyResolved] # keyResolved

\* The `for { ... }` of parseMapType from one iteration on: key = the
\* resolved key, div = the loop ran more than MaxDepth iterations.
RECURSIVE resolveKey(_, _, _, _)
resolveKey(keyResolved, visitedKeys, aliasMap, n) ==
    IF n > MaxDepth THEN [key |-> keyResolved, div |-> TRUE]
    ELSE IF keySeen(visitedKeys, keyResolved)
         THEN [key |-> keyResolved, div |-> FALSE]
    ELSE IF keyHasAlias(aliasMap, keyResolved)
         THEN resolveKey(aliasMap[keyResolved],
                         visitedKeys \cup {keyResolved}, aliasMap, n + 1)
    ELSE [key |-> keyResolved, div |-> FALSE]

\* A value rule that also parenthesises a union that ends with `[]`.
mapValue_arrays(valTS) ==
    IF Contains(valTS, "|") /\ ~HasPrefix(valTS, "(")
    THEN "(" \o valTS \o ")" ELSE valTS

\* The parenthesising of a mapped map value.
mapValue(valTS) ==
    IF Contains(valTS, "|") /\ ~HasSuffix(valTS, "[]") /\ ~HasPrefix(valTS, "(")
    THEN "(" \o valTS \o ")" ELSE valTS

\* `base == goType` in checkAliasTypes
aliasIsSelf(base, goType) == base = goType

\* An order of the tests with the enclosing parameters before the
\* substitution map.
firstRule_paramsBeforeSubstitution(goType, aliasMap, typeParams, typeParamMapping) ==
    IF goType = "" THEN "empty"
    ELSE IF checkSpecialCases(goType) # "" THEN "special"
    ELSE IF isTypeParam(goType, typeParams) THEN "typeParam"
    ELSE IF goType \in DOMAIN typeParamMapping THEN "substitution"
    ELSE IF HasPrefix(goType, "*") THEN "pointer"
    ELSE IF HasPrefix(goType, "[]") THEN "slice"
    ELSE IF HasPrefix(goType, "map[") THEN "map"
    ELSE IF HasPrefix(goType, "struct{") THEN "struct"
    ELSE IF genericTypePattern(goType) THEN "generic"
    ELSE "alias"

\* An order of the tests with the enclosing parameters before the literals.
firstRule_paramsFirst(goType, aliasMap, typeParams, typeParamMapping) ==
    IF goType \in DOMAIN typeParamMapping THEN "substitution"
    ELSE IF goType = "" THEN "empty"
    ELSE IF isTypeParam(goType, typeParams) THEN "typeParam"
    ELSE IF checkSpecialCases(goType) # "" THEN "special"
    ELSE IF HasPrefix(goType, "*") THEN "pointer"
    ELSE IF HasPrefix(goType, "[]") THEN "slice"
    ELSE IF HasPrefix(goType, "map[") THEN "map"
    ELSE IF HasPrefix(goType, "struct{") THEN "struct"
    ELSE IF genericTypePattern(goType) THEN "generic"
    ELSE "alias"

\* The rule of GoTypeToTSType that takes a trimmed, unvisited expression:
\* the first of the function's tests, in the order of the code, that holds.
firstRule(goType, aliasMap, typeParams, typeParamMapping) ==
    IF goType \in DOMAIN typeParamMapping THEN "substitution"
    ELSE IF goType = "" THEN "empty"
    ELSE IF checkSpecialCases(goType) # "" THEN "special"
    ELSE IF isTypeParam(goType, typeParams) THEN "typeParam"
    ELSE IF HasPrefix(goType, "*") THEN "pointer"
    ELSE IF HasPrefix(goType, "[]") THEN "slice"
    ELSE IF HasPrefix(goType, "map[") THEN "map"
    ELSE IF HasPrefix(goType, "struct{") THEN "struct"
    ELSE IF genericTypePattern(goType) THEN "generic"
    ELSE "alias"

\* Rules after the alias rule that pass an upper-case name through only
\* when the record table knows it.
afterAlias_knownOnly(goType, structMap) ==
    IF checkBasicTypes(goType) # goType THEN checkBasicTypes(goType)
    ELSE IF checkComplexTypes(goType) # "" THEN checkComplexTypes(goType)
    ELSE IF IsAliasName(goType)
         THEN IF IsUserDefinedStruct(goType, structMap) THEN goType ELSE "any"
    ELSE goType

\* The rules after the alias rule: basic table, foreign names, pass-through.
afterAlias(goType, structMap) ==
    IF checkBasicTypes(goType) # goType THEN checkBasicTypes(goType)
    ELSE IF checkComplexTypes(goType) # "" THEN checkComplexTypes(goType)
    ELSE IF IsAliasName(goType)
         THEN IF IsUserDefinedStruct(goType, structMap) THEN goType ELSE goType
    ELSE goType

\* The element of a one-element set.  Only({e(x) : x \in {v}}) is e(v) with
\* v computed once, which is how the code holds a call's result in a local.
Only(S) == CHOOSE x \in S : TRUE

RECURSIVE GoTypeToTSType(_, _, _, _, _, _, _)
RECURSIVE parseMapType(_, _, _, _, _, _, _)
RECURSIVE structFields(_, _, _, _, _, _, _)
RECURSIVE ParseStructType(_, _, _, _, _, _, _)
RECURSIVE genericParams(_, _, _, _, _, _, _)
RECURSIVE CheckGenericPatterns(_, _, _, _, _, _, _)
RECURSIVE checkAliasTypes(_, _, _, _, _, _, _)

\* keyTS of parseMapType for the trimmed key text.
mapKey(rawKey, aliasMap, typeParams, structMap, typeParamMapping, visited, depth) ==
    IF HasPrefix(rawKey, "struct{") THEN Ret("string", visited, FALSE)
    ELSE IF rawKey \in numericKeys THEN Ret("number", visited, FALSE)
    ELSE Only({
        IF rk.div THEN NoReturn(visited)
        ELSE Only({
            IF k.div THEN NoReturn(visited)
            ELSE Ret(coerceKey(k.res), k.vis, FALSE)
            : k \in {GoTypeToTSType(rk.key, aliasMap, typeParams, structMap,
                                    typeParamMapping, visited, depth + 1)}})
        : rk \in {resolveKey(rawKey, {}, aliasMap, 0)}})

\* parseMapType
parseMapType(goType, aliasMap, typeParams, structMap, typeParamMapping, visited, depth) ==
    Only({
        IF Len(parts) # mapTypeSplitLimit THEN Ret("any", visited, FALSE)
        ELSE Only({
            IF key.div THEN NoReturn(visited)
            ELSE Only({
                IF val.div THEN NoReturn(visited)
                ELSE Ret("{ [key: " \o key.res \o "]: " \o mapValue(val.res) \o " }",
                         val.vis, FALSE)
                : val \in {GoTypeToTSType(TrimSpace(parts[2]), aliasMap, typeParams,
                                          structMap, typeParamMapping, key.vis,
                                          depth + 1)}})
            : key \in {mapKey(TrimSpace(parts[1]), aliasMap, typeParams, structMap,
                              typeParamMapping, visited, depth)}})
        : parts \in {SplitN2(SubSeq(goType, Len("map[") + 1, Len(goType)), "]")}})

\* A loop body that skips a field text of fewer than two tokens.
structField_noFallback(f, aliasMap, typeParams, structMap, typeParamMapping, visited, depth) ==
    IF f = "" \/ Len(Fields(f)) < minFieldParts
    THEN [out |-> <<>>, vis |-> visited, div |-> FALSE]
    ELSE Only({
        IF t.div THEN [out |-> <<>>, vis |-> visited, div |-> TRUE]
        ELSE [out |-> <<Fields(f)[1] \o ": " \o t.res>>, vis |-> t.vis, div |-> FALSE]
        : t \in {GoTypeToTSType(Join(Tail(Fields(f)), " "), aliasMap, typeParams,
                                structMap, typeParamMapping, visited, depth + 1)}})

\* One iteration of ParseStructType's loop, for the field text f: the
\* entries it appends.
structField(f, aliasMap, typeParams, structMap, typeParamMapping, visited, depth) ==
    IF f = "" THEN [out |-> <<>>, vis |-> visited, div |-> FALSE]
    ELSE Only({
        IF Len(parts) < minFieldParts
        THEN [out |-> <<"unknown: any">>, vis |-> visited, div |-> FALSE]
        ELSE Only({
            IF t.div THEN [out |-> <<>>, vis |-> visited, div |-> TRUE]
            ELSE [out |-> <<parts[1] \o ": " \o t.res>>, vis |-> t.vis, div |-> FALSE]
            : t \in {GoTypeToTSType(Join(Tail(parts), " "), aliasMap, typeParams,
                                    structMap, typeParamMapping, visited, depth + 1)}})
        : parts \in {Fields(f)}})

\* The loop of ParseStructType over the field texts: the entries emitted.
structFields(fields, aliasMap, typeParams, structMap, typeParamMapping, visited, depth) ==
    IF Len(fields) = 0 THEN [out |-> <<>>, vis |-> visited, div |-> FALSE]
    ELSE Only({
        IF this.div THEN this
        ELSE Only({
            IF rest.div THEN rest
            ELSE [out |-> this.out \o rest.out, vis |-> rest.vis, div |-> FALSE]
            : rest \in {structFields(Tail(fields), aliasMap, typeParams, structMap,
                                     typeParamMapping, this.vis, depth)}})
        : this \in {structField(TrimSpace(Head(fields)), aliasMap, typeParams,
                                structMap, typeParamMapping, visited, depth)}})

\* ParseStructType
ParseStructType(goType, aliasMap, typeParams, structMap, typeParamMapping, visited, depth) ==
    Only({
        IF ts.div THEN NoReturn(visited)
        ELSE Ret("{ " \o Join(ts.out, "; ") \o " }", ts.vis, FALSE)
        : ts \in {structFields(
                    Split(TrimSuffix(TrimPrefix(goType, "struct{"), "}"), ";"),
                    aliasMap, typeParams, structMap, typeParamMapping, visited, depth)}})

\* The loop of CheckGenericPatterns over params: the mapped parameters.
genericParams(params, aliasMap, typeParams, structMap, typeParamMapping, visited, depth) ==
    IF Len(params) = 0 THEN [out |-> <<>>, vis |-> visited, div |-> FALSE]
    ELSE Only({
        IF p.div THEN [out |-> <<>>, vis |-> visited, div |-> TRUE]
        ELSE Only({
            IF rest.div THEN rest
            ELSE [out |-> <<p.res>> \o rest.out, vis |-> rest.vis, div |-> FALSE]
            : rest \in {genericParams(Tail(params), aliasMap, typeParams, structMap,
                                      typeParamMapping, p.vis, depth)}})
        : p \in {GoTypeToTSType(Head(params), aliasMap, typeParams, structMap,
                                typeParamMapping, visited, depth + 1)}})

\* `if baseAlias, ok := aliasMap[base]; ok && baseAlias != base`
baseHasAlias(aliasMap, base) == base \in DOMAIN aliasMap /\ aliasMap[base] # base

\* A base rule that maps every base, aliased or not.
genericBase_mapped(base, aliasMap, typeParams, structMap, typeParamMapping, visited, depth) ==
    GoTypeToTSType(base, aliasMap, typeParams, structMap, typeParamMapping,
                   visited, depth + 1)

\* A base rule that emits the name as written, aliased or not.
genericBase_unresolved(base, aliasMap, typeParams, structMap, typeParamMapping, visited, depth) ==
    Ret(base, visited, FALSE)

\* The base CheckGenericPatterns emits.
genericBase(base, aliasMap, typeParams, structMap, typeParamMapping, visited, depth) ==
    IF baseHasAlias(aliasMap, base)
    THEN GoTypeToTSType(aliasMap[base], aliasMap, typeParams, structMap,
                        typeParamMapping, visited, depth + 1)
    ELSE Ret(base, visited, FALSE)

\* CheckGenericPatterns
CheckGenericPatterns(goType, aliasMap, typeParams, structMap, typeParamMapping, visited, depth) ==
    Only({
        Only({
            IF ts.div THEN NoReturn(visited)
            ELSE Only({
                IF base.div THEN NoReturn(visited)
                ELSE Ret(base.res \o "<" \o Join(ts.out, ", ") \o ">", base.vis, FALSE)
                : base \in {genericBase(sp.base, aliasMap, typeParams, structMap,
                                        typeParamMapping, ts.vis, depth)}})
            : ts \in {genericParams(sp.params, aliasMap, typeParams, structMap,
                                    typeParamMapping, visited, depth)}})
        : sp \in {SplitGenericType(goType)}})

\* An alias rule that returns the underlying text as it is written.
checkAliasTypes_verbatim(goType, aliasMap, typeParams, structMap, typeParamMapping, visited, depth) ==
    IF goType \in DOMAIN aliasMap
    THEN Ret(aliasMap[goType], visited, FALSE)
    ELSE Ret("", visited, FALSE)

\* checkAliasTypes
checkAliasTypes(goType, aliasMap, typeParams, structMap, typeParamMapping, visited, depth) ==
    IF goType \in DOMAIN aliasMap
    THEN IF aliasIsSelf(aliasMap[goType], goType) THEN Ret("any", visited, FALSE)
         ELSE GoTypeToTSType(aliasMap[goType], aliasMap, typeParams, structMap,
                             typeParamMapping, visited, depth + 1)
    ELSE Ret("", visited, FALSE)

\* The body of GoTypeToTSType after the cycle guard, for the trimmed
\* expression and the visited map that holds it.
applyRule(rule, goType, aliasMap, typeParams, structMap, typeParamMapping, visited, depth) ==
    CASE rule = "substitution" -> Ret(typeParamMapping[goType], visited, FALSE)
      [] rule = "empty" -> Ret("", visited, FALSE)
      [] rule = "special" -> Ret(checkSpecialCases(goType), visited, FALSE)
      [] rule = "typeParam" -> Ret(goType, visited, FALSE)
      [] rule = "pointer" ->
            Only({
                IF inner.div THEN inner
                ELSE Ret(pointerResult(inner.res), inner.vis, FALSE)
                : inner \in {GoTypeToTSType(SubSeq(goType, Len("*") + 1, Len(goType)),
                                            aliasMap, typeParams, structMap,
                                            typeParamMapping, visited, depth + 1)}})
      [] rule = "slice" ->
            Only({
                IF elem.div THEN elem
                ELSE Ret(sliceResult(elem.res), elem.vis, FALSE)
                : elem \in {GoTypeToTSType(SubSeq(goType, Len("[]") + 1, Len(goType)),
                                           aliasMap, typeParams, structMap,
                                           typeParamMapping, visited, depth + 1)}})
      [] rule = "map" ->
            parseMapType(goType, aliasMap, typeParams, structMap,
                         typeParamMapping, visited, depth)
      [] rule = "struct" ->
            ParseStructType(goType, aliasMap, typeParams, structMap,
                            typeParamMapping, visited, depth)
      [] rule = "generic" ->
            CheckGenericPatterns(goType, aliasMap, typeParams, structMap,
                                 typeParamMapping, visited, depth)
      [] rule = "alias" ->
            Only({
                IF alias.div THEN alias
                ELSE IF aliasReturns(alias.res) THEN alias
                ELSE Ret(afterAlias(goType, structMap), alias.vis, FALSE)
                : alias \in {checkAliasTypes(goType, aliasMap, typeParams, structMap,
                                             typeParamMapping, visited, depth)}})

\* GoTypeToTSType for the trimmed expression.
mapTrimmed(goType, aliasMap, typeParams, structMap, typeParamMapping, visited, depth) ==
    IF isVisited(visited, goType) THEN Ret("any", visited, FALSE)
    ELSE Only({
        IF r.div THEN NoReturn(visited)
        ELSE Ret(r.res, deferDelete(r.vis, goType), FALSE)
        : r \in {applyRule(firstRule(goType, aliasMap, typeParams, typeParamMapping),
                           goType, aliasMap, typeParams, structMap, typeParamMapping,
                           markVisited(visited, goType), depth)}})

\* GoTypeToTSType; depth counts the enclosing calls.
GoTypeToTSType(goType0, aliasMap, typeParams, structMap, typeParamMapping, visited, depth) ==
    IF depth > MaxDepth THEN NoReturn(visited)
    ELSE Only({
        mapTrimmed(goType, aliasMap, typeParams, structMap, typeParamMapping,
                   visited, depth)
        : goType \in {TrimSpace(goType0)}})

\* ---------------------------------------------------------- ExprToString
\* A node of go/ast: its dynamic type, the name it carries (Ident.Name,
\* SelectorExpr.Sel.Name), the names of a field, and its child nodes in
\* source order (X, Elt, Key and Value, X and Index, X and Indices, Fields).
Node(kind, name, names, kids) ==
    [kind |-> kind, name |-> name, names |-> names, kids |-> kids]

Ident(name) == Node("Ident", name, <<>>, <<>>)
StarExpr(x) == Node("StarExpr", "", <<>>, <<x>>)
SelectorExpr(x, sel) == Node("SelectorExpr", sel, <<>>, <<x>>)
ArrayType(elt) == Node("ArrayType", "", <<>>, <<elt>>)
MapType(key, value) == Node("MapType", "", <<>>, <<key, value>>)
IndexExpr(x, index) == Node("IndexExpr", "", <<>>, <<x, index>>)
IndexListExpr(x, indices) == Node("IndexListExpr", "", <<>>, <<x>> \o indices)
InterfaceType == Node("InterfaceType", "", <<>>, <<>>)
FuncType == Node("FuncType", "", <<>>, <<>>)
StructType(fields) == Node("StructType", "", <<>>, fields)
Field(names, type) == Node("Field", "", names, <<type>>)

\* A node of any other dynamic type (BadExpr, ChanType, ParenExpr, ...).
OtherExpr(kind, kids) == Node(kind, "", <<>>, kids)

\* A nil *ast.Ident among the names of a field.
NilIdent == "<nil>"

\* `if n != nil`
notNil(n) == n # NilIdent

\* A separator without the blank.
indexSeparator_bare == ","

\* IndexListExpr's separator between the indices.
indexSeparator == ", "

RECURSIVE ExprToString(_)

\* One iteration of the StructType loop: the part of one field.
fieldPart(field) ==
    IF Len(field.names) = 0 THEN ExprToString(field.kids[1])
    ELSE Join(SelectSeq(field.names, notNil), ", ") \o " "
             \o ExprToString(field.kids[1])

\* ExprToString
ExprToString(expr) ==
    CASE expr.kind = "Ident" -> expr.name
      [] expr.kind = "StarExpr" -> "*" \o ExprToString(expr.kids[1])
      [] expr.kind = "SelectorExpr" ->
            ExprToString(expr.kids[1]) \o "." \o expr.name
      [] expr.kind = "ArrayType" -> "[]" \o ExprToString(expr.kids[1])
      [] expr.kind = "MapType" ->
            "map[" \o ExprToString(expr.kids[1]) \o "]"
                   \o ExprToString(expr.kids[2])
      [] expr.kind = "IndexExpr" ->
            ExprToString(expr.kids[1]) \o "["
                \o ExprToString(expr.kids[2]) \o "]"
      [] expr.kind = "IndexListExpr" ->
            ExprToString(expr.kids[1]) \o "["
                \o Join([i \in 1..(Len(expr.kids) - 1) |->
                             ExprToString(expr.kids[i + 1])], indexSeparator)
                \o "]"
      [] expr.kind = "InterfaceType" -> "interface{}"
      [] expr.kind = "FuncType" -> "func"
      [] expr.kind = "StructType" ->
            IF Len(expr.kids) = 0 THEN "struct{}"
            ELSE "struct{ "
                    \o Join([i \in DOMAIN expr.kids |-> fieldPart(expr.kids[i])], "; ")
                    \o " }"
      [] OTHER -> ""

\* --------------------------------------------------------------- Convert
\* A Go error: its text and the text of the error it wraps; the nil error
\* has neither.
Error(msg, cause) == [msg |-> msg, cause |-> cause]

NilError == Error("", "")

\* fmt's %q for a path without quotes or escapes.
Quote(s) == "\"" \o s \o "\""

\* `fmt.Errorf("...: %w", err)`
Errorf(prefix, err) == Error(prefix \o ": " \o err.msg, err.msg)

\* What a call of Convert leaves behind: the error it returns and how often
\* it called ParseGoFiles and GenerateTypeScript.
Returned(err, parsed, generated) ==
    [err |-> err, parseCalls |-> parsed, generateCalls |-> generated]

\* A Convert that goes on to generate after a failed extraction.
Convert_goesOn(inputDir, outputFile, parseErr, generateErr) ==
    IF parseErr # NilError
    THEN Returned(Errorf("failed to parse Go files in " \o Quote(inputDir),
                         parseErr), 1, 1)
    ELSE IF generateErr # NilError
    THEN Returned(Errorf("failed to generate TypeScript file " \o Quote(outputFile),
                         generateErr), 1, 1)
    ELSE Returned(NilError, 1, 1)

\* Convert, for the errors parseErr and generateErr that ParseGoFiles and
\* GenerateTypeScript return when they are called.
Convert(inputDir, outputFile, parseErr, generateErr) ==
    IF parseErr # NilError
    THEN Returned(Errorf("failed to parse Go files in " \o Quote(inputDir),
                         parseErr), 1, 0)
    ELSE IF generateErr # NilError
    THEN Returned(Errorf("failed to generate TypeScript file " \o Quote(outputFile),
                         generateErr), 1, 1)
    ELSE Returned(NilError, 1, 1)

\* -------------------------------------------------------- ExtractJSONTag
\* The start of a json entry in a tag string.
jsonKey == "json:\""

\* An ExtractJSONTag that returns the whole quoted value.
ExtractJSONTag_whole(tag) ==
    LET start == Index(tag, jsonKey)
        rest == SubSeq(tag, start + Len(jsonKey) + 1, Len(tag))
        end == Index(rest, "\"")
    IN  IF start < 0 \/ end < 0 THEN ""
        ELSE IF SubSeq(rest, 1, end) = "-" THEN ""
        ELSE SubSeq(rest, 1, end)

\* ExtractJSONTag: the name before the first comma of the quoted value of
\* the first json entry; empty for the value `-`, without a json entry and
\* without a closing quote.
ExtractJSONTag(tag) ==
    LET start == Index(tag, jsonKey)
        rest == SubSeq(tag, start + Len(jsonKey) + 1, Len(tag))
        end == Index(rest, "\"")
    IN  IF start < 0 \/ end < 0 THEN ""
        ELSE IF SubSeq(rest, 1, end) = "-" THEN ""
        ELSE Split(SubSeq(rest, 1, end), ",")[1]

\* ------------------------------------------------------------ the inputs
EmptyMap == [n \in {} |-> ""]

\* The alias table of TestGoTypeToTSType.
TestAliases ==
    [n \in {"MyString", "MyInt", "MyAlias", "Alias2", "Alias3", "SelfRef",
            "Nested", "AliasInt", "AliasMap", "AliasLoop1", "AliasLoop2"} |->
        CASE n = "MyString" -> "string"
          [] n = "MyInt" -> "int"
          [] n = "MyAlias" -> "MyString"
          [] n = "Alias2" -> "MyAlias"
          [] n = "Alias3" -> "Alias2"
          [] n = "SelfRef" -> "SelfRef"
          [] n = "Nested" -> "map[string][]*MyAlias"
          [] n = "AliasInt" -> "int"
          [] n = "AliasMap" -> "map[string]string"
          [] n = "AliasLoop1" -> "AliasLoop2"
          [] n = "AliasLoop2" -> "AliasLoop1"]

\* A table of degenerate aliases: a self alias (A), a mutual pair (B, C),
\* a cycle of three (D, E, F), aliases whose underlying text contains the
\* alias (L, M, G, P), empty and blank underlying texts (Z, W), a chain to a
\* numeric type (K2 -> K -> int) and aliases that shadow basic names (one
\* of them with an empty text) and the literals of checkSpecialCases.
OddAliases ==
    [n \in {"A", "B", "C", "D", "E", "F", "L", "M", "G", "P", "Z", "W",
            "K", "K2", "bool", "error", "func", "[]byte", "struct{}",
            "*time.Time", "*url.URL"} |->
        CASE n = "A" -> "A"
          [] n = "B" -> "C"
          [] n = "C" -> "B"
          [] n = "D" -> "E"
          [] n = "E" -> "F"
          [] n = "F" -> "D"
          [] n = "L" -> "[]L"
          [] n = "M" -> "map[M]M"
          [] n = "G" -> "G[G]"
          [] n = "P" -> "*P"
          [] n = "Z" -> ""
          [] n = "W" -> " "
          [] n = "K" -> "int"
          [] n = "K2" -> "K"
          [] n = "bool" -> "string"
          [] n = "error" -> ""
          [] n \in {"func", "[]byte", "struct{}", "*time.Time", "*url.URL"} -> "int"]

AliasTables == {EmptyMap, TestAliases, OddAliases}

TypeParamLists == {<<>>, <<"T">>, <<"T", "bool", "func", "*url.URL">>}

\* The substitution map of TestGoTypeToTSType_MissedBranches, with a key that
\* is also an enclosing parameter, an alias and a basic name.
Substitution == [n \in {"X", "bool"} |-> IF n = "X" THEN "Xtype" ELSE "int"]

TypeParamMappings == {EmptyMap, Substitution}

StructMaps == {{}, {"User", "CustomType"}}

\* The visited maps a caller constructs: fresh, or holding names already.
VisitedMaps == {{}, {"loop", "A"}}

\* The expressions of the repository's tests and fixtures, and degenerate ones.
Atoms ==
    {"", " ", "malformed[", "SelfRef", "*int", "[][]map[int]string",
     "map[string][]*MyAlias", "Alias3", "MyType[T]", "Result[K, V]",
     "[]Custom[T]", "*Option[string]", "UnknownAlias", "*Custom", "[]Custom",
     "map[string", "string", "int", "bool", "[]byte", "pkg.Type",
     "map[struct{ X, Y int }]string", "struct{ X int; Y int }", "float64",
     "time.Time", "url.URL", "unsafe.Pointer", "interface{}", "[]string",
     "map[string]int", "AliasInt", "AliasMap", "T", "*pkg.Custom",
     "[]pkg.Custom", "struct{ FieldOnly }", "map[UnknownStruct]string",
     "struct{}", "error", "*time.Time", "*url.URL", "sql.NullString",
     "uuid.UUID", "complex64", "CustomType", "map[AliasLoop1]string",
     "loop", "X", "NonMatchingType", "User", "symbol",
     "A", "B", "C", "D", "L", "M", "G", "P", "Z", "W", "K", "K2",
     "MyAlias", "MyInt", "Nested", "AliasLoop1", "AliasLoop2",
     "*", "[]", "map[]", "map[]int", "A[]", "Base[ ]", "func", "* time.Time",
     "**int", "*A", "*B", "*P", "*L", "[]L", "[]M", "[]AliasMap", "[]Nested",
     "*interface{}", "map[MyInt]string", "map[Alias3]int", "map[K2]int",
     "map[A]int", "map[B]int", "map[M]int", "map[T]int", "map[bool]int",
     "map[symbol]int", "map[float64]int", "map[X]int", "map[string]*int",
     "map[Key[T]]V", "map[[]int]V", "map[ int ] string",
     "MyAlias[T]", "G[int]", "A[B]", "pkg.Type[T]", "Base[T]rest",
     "Result[Result[*User]]", "Pair[Map[K, V], E]",
     "struct{X int;Y string}", "struct{ A struct{ B int; C int }; D int }",
     "struct{ X, Y int }", "struct{ ; X *A; }",
     "struct{ X int; ; JustField; Y []string }", "[]loop",
     "[]*MyAlias", "[]*int", "[]sql.NullString", "interface {}",
     "*interface {}"}

\* The expressions wrappers are put around.
Cores ==
    {"int", "string", "User", "time.Time", "map[string]int", "AliasMap", "T",
     "A", "B", "P", "M", "Alias3", "", "byte"}

\* One more wrapper around each expression of S.
Wrap(S) ==
    UNION {{"*" \o e, "[]" \o e, "map[string]" \o e, "map[" \o e \o "]int",
            "R[" \o e \o ", int]", "struct{ F " \o e \o " }", " " \o e \o " "}
           : e \in S}

RECURSIVE Wrapped(_, _)
Wrapped(S, n) == IF n = 0 THEN S ELSE S \cup Wrapped(Wrap(S), n - 1)

Exprs == Atoms \cup Wrapped(Cores, MaxWrap)

\* SplitGenericType inputs: a base, `[`, parameter texts joined by `,`, `]`,
\* and texts that have no such shape.
SplitBases == {"Base", "", "a]b"}

SplitParamTexts == {"T", " K ", "Map[K, V]", "[]int", "", " ", "K]", "K,V"}

ParamSeqs == UNION {[1..n -> SplitParamTexts] : n \in 1..MaxParams}

Build(base, ps) == base \o "[" \o Join(ps, ",") \o "]"

RawSplitInputs ==
    {"", "Plain", "Broken[Param", "]x[", "a]b", "x]y[z", "[", "]", "][",
     "Base[T]rest", "BrokenType[Param", "MapEntry[  KeyType , ValueType  ]",
     "Pair[Map[K, V], E]", "A[B[C, D], E]"}

\* The syntax nodes ExprToString is called with.
AstLeaves ==
    {Ident("T"), Ident("int"), Ident("pkg"), InterfaceType, FuncType,
     StructType(<<>>), OtherExpr("BadExpr", <<>>),
     OtherExpr("ChanType", <<Ident("int")>>)}

\* The nodes of TestExprToString, and nodes without indices or names.
AstAtoms ==
    {Ident("MyType"), StarExpr(Ident("MyType")),
     SelectorExpr(Ident("pkg"), "Type"), ArrayType(Ident("int")),
     MapType(Ident("string"), Ident("int")),
     IndexExpr(Ident("MyType"), Ident("T")),
     IndexListExpr(Ident("MyType"), <<Ident("T"), Ident("K")>>),
     IndexListExpr(Ident("MyType"), <<>>),
     StructType(<<Field(<<"Field1">>, Ident("int")),
                  Field(<<"Field2", "Field3">>, Ident("string"))>>),
     StructType(<<Field(<<>>, Ident("MyEmbeddedType"))>>),
     StructType(<<Field(<<NilIdent>>, Ident("int"))>>),
     StructType(<<Field(<<"X", "Y">>, Ident("int"))>>),
     StructType(<<Field(<<"A">>, StructType(<<Field(<<"B">>, Ident("int")),
                                              Field(<<"C">>, Ident("int"))>>)),
                  Field(<<"D">>, Ident("int"))>>),
     MapType(IndexExpr(Ident("Key"), Ident("T")), Ident("V")),
     MapType(ArrayType(Ident("int")), Ident("V")),
     IndexExpr(Ident("Result"), IndexExpr(Ident("Result"), StarExpr(Ident("User")))),
     OtherExpr("Ellipsis", <<Ident("int")>>)}

\* One more node around each node of S.
AstWrap(S) ==
    UNION {{StarExpr(x), SelectorExpr(x, "Type"), ArrayType(x),
            MapType(Ident("string"), x), MapType(x, Ident("int")),
            IndexExpr(Ident("Base"), x),
            IndexListExpr(Ident("Base"), <<x, Ident("T")>>),
            StructType(<<Field(<<"A", "B">>, x)>>),
            StructType(<<Field(<<>>, x), Field(<<"C", NilIdent>>, Ident("int"))>>),
            OtherExpr("ParenExpr", <<x>>)}
           : x \in S}

RECURSIVE AstWrapped(_, _)
AstWrapped(S, n) == IF n = 0 THEN S ELSE S \cup AstWrapped(AstWrap(S), n - 1)

AstExprs == AstAtoms \cup AstWrapped(AstLeaves, MaxWrap)

\* The directories and files Convert is called with, and the errors its two
\* steps can return.
InputDirs == {"testdata/model", "bad"}

OutputFiles == {"types.ts", "/root/forbidden/types.ts"}

ParseErrors == {NilError, Error("bad.go:3:7: expected '(', found thisIsBad", "")}

GenerateErrors ==
    {NilError, Error("open /root/forbidden/types.ts: no such file or directory", "")}

\* The tag strings of TestExtractJSONTag.
TagAtoms ==
    {"json:\"name\"", "json:\"name,omitempty\"", "json:\"-\"",
     "json:\"name,omitempty\" xml:\"xmlName\"", "xml:\"xmlName\" json:\"name\"",
     "", "xml:\"xmlName\"", "json:\"\"",
     "json:\"name,omitempty\" bson:\"bsonName\"",
     "json:\"name,omitempty\" json:\"other\"", "json:\"-\" xml:\"-\"", "   ",
     "json:\"\",xml:\"x\"", "json:\"foo,bar,baz\"", "json:\"noendingquote",
     "json:\",omitempty\"", "json:"}

\* Tag strings written as entries key:"value" with blanks between them.
TagKeys == {"json", "xml"}

TagValues == {"name", "other,omitempty", "-", ""}

TagEntries == {k \o ":\"" \o v \o "\"" : k \in TagKeys, v \in TagValues}

TagSeqs == UNION {[1..n -> TagEntries] : n \in 1..MaxParams}

Tags == TagAtoms \cup {Join(es, " ") : es \in TagSeqs}

\* --------------------------------------------------------------- the state
VARIABLES
    aliasMap,          \* the alias table
    typeParams,        \* the enclosing declaration's generic parameters
    structMap,         \* the names of the known records
    typeParamMapping,  \* the parameter substitution map
    visited0,          \* the visited map as the caller constructed it
    visited,           \* the visited map the caller passes to every call
    pc,                \* "idle", or the function that has just returned
    goType,            \* the argument of that call
    written,           \* the base and parameter texts goType was built from
    result,            \* the string GoTypeToTSType returned
    div,               \* GoTypeToTSType did not return within MaxDepth
    split,             \* what SplitGenericType returned
    expr,              \* the node ExprToString was called with
    text,              \* the string ExprToString returned
    convertArgs,       \* the arguments of Convert and its steps' outcomes
    converted,         \* what the call of Convert left behind
    tag,               \* the tag string ExtractJSONTag was called with
    jsonName           \* the name ExtractJSONTag returned

vars == <<aliasMap, typeParams, structMap, typeParamMapping, visited0, visited,
          pc, goType, written, result, div, split, expr, text,
          convertArgs, converted, tag, jsonName>>

tables == <<aliasMap, typeParams, structMap, typeParamMapping, visited0>>

NoSplit == [base |-> "", params |-> <<>>]

\* No node: the nil ast.Expr.
NoExpr == OtherExpr("nil", <<>>)

\* No call of Convert.
NoArgs == [inputDir |-> "", outputFile |-> "",
           parseErr |-> NilError, generateErr |-> NilError]

NotConverted == Returned(NilError, 0, 0)

Init ==
    /\ aliasMap \in AliasTables
    /\ typeParams \in TypeParamLists
    /\ structMap \in StructMaps
    /\ typeParamMapping \in TypeParamMappings
    /\ visited0 \in VisitedMaps
    /\ visited = visited0
    /\ pc = "idle"
    /\ goType = ""
    /\ written = NoSplit
    /\ result = ""
    /\ div = FALSE
    /\ split = NoSplit
    /\ expr = NoExpr
    /\ text = ""
    /\ convertArgs = NoArgs
    /\ converted = NotConverted
    /\ tag = ""
    /\ jsonName = ""

\* The call the caller makes, with its tables and its visited map.
Mapped(e) == GoTypeToTSType(e, aliasMap, typeParams, structMap, typeParamMapping, visited, 0)

\* A caller maps one type expression.
CallGoTypeToTSType ==
    /\ pc = "idle"
    /\ \E e \in Exprs :
        LET r == Mapped(e)
        IN  /\ goType' = e
            /\ result' = r.res
            /\ visited' = r.vis
            /\ div' = r.div
    /\ pc' = "GoTypeToTSType"
    /\ UNCHANGED <<tables, written, split, expr, text, convertArgs, converted, tag, jsonName>>

\* A caller splits a text it wrote as base[p1,...,pn].
CallSplitGenericType ==
    /\ pc = "idle"
    /\ \E b \in SplitBases, ps \in ParamSeqs :
        /\ written' = [base |-> b, params |-> ps]
        /\ goType' = Build(b, ps)
        /\ split' = SplitGenericType(Build(b, ps))
    /\ pc' = "SplitGenericType"
    /\ UNCHANGED <<tables, visited, result, div, expr, text, convertArgs, converted, tag, jsonName>>

\* A caller splits a text of any other shape.
CallSplitRaw ==
    /\ pc = "idle"
    /\ \E s \in RawSplitInputs :
        /\ goType' = s
        /\ split' = SplitGenericType(s)
    /\ pc' = "SplitGenericType"
    /\ UNCHANGED <<tables, visited, written, result, div, expr, text, convertArgs, converted, tag, jsonName>>

\* A caller normalizes one syntax node.
CallExprToString ==
    /\ pc = "idle"
    /\ \E n \in AstExprs :
        /\ expr' = n
        /\ text' = ExprToString(n)
    /\ pc' = "ExprToString"
    /\ UNCHANGED <<tables, visited, goType, written, result, div, split,
                   convertArgs, converted, tag, jsonName>>

\* A caller converts a directory; the two steps succeed or fail.
CallConvert ==
    /\ pc = "idle"
    /\ \E inputDir \in InputDirs, outputFile \in OutputFiles,
          parseErr \in ParseErrors, generateErr \in GenerateErrors :
        /\ convertArgs' = [inputDir |-> inputDir, outputFile |-> outputFile,
                           parseErr |-> parseErr, generateErr |-> generateErr]
        /\ converted' = Convert(inputDir, outputFile, parseErr, generateErr)
    /\ pc' = "Convert"
    /\ UNCHANGED <<tables, visited, goType, written, result, div, split,
                   expr, text, tag, jsonName>>

\* The emitter asks for the name a field's tag gives.
CallExtractJSONTag ==
    /\ pc = "idle"
    /\ \E t \in Tags :
        /\ tag' = t
        /\ jsonName' = ExtractJSONTag(t)
    /\ pc' = "ExtractJSONTag"
    /\ UNCHANGED <<tables, visited, goType, written, result, div, split,
                   expr, text, convertArgs, converted>>

\* The caller goes on to its next call, keeping its tables and visited map.
Continue ==
    /\ pc # "idle"
    /\ pc' = "idle"
    /\ goType' = ""
    /\ written' = NoSplit
    /\ result' = ""
    /\ div' = FALSE
    /\ split' = NoSplit
    /\ expr' = NoExpr
    /\ text' = ""
    /\ convertArgs' = NoArgs
    /\ converted' = NotConverted
    /\ tag' = ""
    /\ jsonName' = ""
    /\ UNCHANGED <<tables, visited>>

Next ==
    \/ CallGoTypeToTSType
    \/ CallSplitGenericType
    \/ CallSplitRaw
    \/ CallExprToString
    \/ CallConvert
    \/ CallExtractJSONTag
    \/ Continue

Spec == Init /\ [][Next]_vars

\* ------------------------------------------------------------ the claims
\* The expression the last GoTypeToTSType call worked on.
g == TrimSpace(goType)

\* The three early rules and the cycle guard do not take expression e.
Unshadowed(e) ==
    /\ e \notin visited0
    /\ e \notin DOMAIN typeParamMapping
    /\ ~isTypeParam(e, typeParams)
    /\ e # ""
    /\ checkSpecialCases(e) = ""

\* The names of the alias chain that starts at n: n, its entry, the entry of
\* that, ... (k steps at most).
RECURSIVE Chain(_, _)
Chain(n, k) ==
    IF k = 0 \/ n \notin DOMAIN aliasMap THEN {n}
    ELSE {n} \cup Chain(aliasMap[n], k - 1)

\* n is an alias whose chain of entries leads back to n (A -> A, or
\* A -> B -> ... -> A).
OnAliasCycle(n) ==
    /\ n \in DOMAIN aliasMap
    /\ n \in Chain(aliasMap[n], Cardinality(DOMAIN aliasMap))

\* A call with a fresh visited map.
Fresh(e) == GoTypeToTSType(e, aliasMap, typeParams, structMap, typeParamMapping, {}, 0)

\* C1: every call of GoTypeToTSType returns, whatever the expression and the
\* alias table (self alias, mutual aliases, aliases whose text contains the
\* alias): no call nests deeper than the bound.
C1_Terminates == pc = "GoTypeToTSType" => ~div

C1_Witness ==
    /\ pc = "GoTypeToTSType"
    /\ aliasMap = OddAliases
    /\ g = "map[M]int"
    /\ visited0 = {}
    /\ ~div
    /\ result = "{ [key: string]: number }"

C3_CycleIsAny ==
    (/\ pc = "GoTypeToTSType"
     /\ OnAliasCycle(g)
     /\ \A n \in Chain(g, Cardinality(DOMAIN aliasMap)) :
            /\ n \notin DOMAIN typeParamMapping
            /\ ~isTypeParam(n, typeParams)
            /\ checkSpecialCases(n) = "")
        => result = "any"

C3_Witness ==
    /\ pc = "GoTypeToTSType"
    /\ visited0 = {}
    /\ aliasMap = OddAliases
    /\ g = "C"
    /\ aliasMap[g] = "B"
    /\ aliasMap["B"] = "C"
    /\ result = "any"

\* C4: a call leaves the visited map as it found it, on every return path,
\* and so a call that reuses the map of earlier calls returns what a call
\* with a fresh map returns.
C4_VisitedRestored ==
    /\ visited = visited0
    /\ (pc = "GoTypeToTSType" /\ visited0 = {}) => result = Fresh(goType).res

C4_Witness ==
    /\ pc = "GoTypeToTSType"
    /\ visited0 = {"loop", "A"}
    /\ g = "loop"
    /\ result = "any"
    /\ visited = {"loop", "A"}

\* Text s without its white space.
RECURSIVE Despace(_)
Despace(s) ==
    IF s = "" THEN ""
    ELSE IF Head(s) \in WhiteSpace THEN Despace(Tail(s))
    ELSE SubSeq(s, 1, 1) \o Despace(Tail(s))

\* The text of expression e occurs in the underlying text of an alias, so
\* that expanding the alias can arrive at e again.
InAliasText(e) ==
    \E n \in DOMAIN aliasMap : Contains(Despace(aliasMap[n]), Despace(e))

\* The remainder of a pointer expression.
Pointee(e) == SubSeq(e, Len("*") + 1, Len(e))

\* C5 as stated: for every T, mapping `*T` with a fresh visited map yields
\* the mapping of T with a fresh visited map, followed by ` | null`.
C5_Original ==
    (pc = "GoTypeToTSType" /\ visited0 = {} /\ HasPrefix(g, "*"))
        => result = Fresh(Pointee(g)).res \o " | null"

\* C5: mapping `*T` with a fresh visited map yields the mapping of T with a
\* fresh visited map, followed by ` | null`, when `*T` is not one of the
\* literals `*time.Time` and `*url.URL`, is not a substitution key or an
\* enclosing parameter, and does not occur in the text of an alias.
C5_PointerAppendsNull ==
    (/\ pc = "GoTypeToTSType"
     /\ visited0 = {}
     /\ HasPrefix(g, "*")
     /\ checkSpecialCases(g) = ""
     /\ g \notin DOMAIN typeParamMapping
     /\ ~isTypeParam(g, typeParams)
     /\ ~InAliasText(g))
        => result = Fresh(Pointee(g)).res \o " | null"

C5_Witness ==
    /\ pc = "GoTypeToTSType"
    /\ visited0 = {}
    /\ aliasMap = OddAliases
    /\ g = "*B"
    /\ ~InAliasText(g)
    /\ Fresh("B").res = "any"
    /\ result = "any | null"

\* The call's rule for the trimmed expression e, when the map the call
\* found is vis: "visited" when the cycle guard takes it.
RuleOf(e, vis) ==
    IF e \in vis THEN "visited"
    ELSE firstRule(e, aliasMap, typeParams, typeParamMapping)

\* The slice levels around expression e0 for a call that found vis in the
\* visited map: n = the number of levels the slice rule strips, core = the
\* expression under them, vis = the visited map the core is mapped with.
RECURSIVE SliceLevels(_, _, _)
SliceLevels(e0, vis, n) ==
    LET e == TrimSpace(e0)
    IN  IF RuleOf(e, vis) = "slice"
        THEN SliceLevels(SubSeq(e, Len("[]") + 1, Len(e)), vis \cup {e}, n + 1)
        ELSE [n |-> n, core |-> e0, vis |-> vis]

\* n array suffixes.
RECURSIVE Suffixes(_)
Suffixes(n) == IF n = 0 THEN "" ELSE "[]" \o Suffixes(n - 1)

\* The mapping of the expression under the slice levels of the last call,
\* as that call computes it.
CoreMapping ==
    LET sl == SliceLevels(goType, visited0, 0)
    IN  GoTypeToTSType(sl.core, aliasMap, typeParams, structMap,
                       typeParamMapping, sl.vis, sl.n).res

\* C6: when the expression is n >= 1 slice levels around an element whose
\* mapping is an index-signature text, the result is that text in one pair
\* of parentheses followed by n `[]` suffixes.
C6_SliceOfMapParenthesised ==
    (/\ pc = "GoTypeToTSType"
     /\ SliceLevels(goType, visited0, 0).n >= 1
     /\ HasPrefix(CoreMapping, "{ [key:"))
        => result = "(" \o CoreMapping \o ")"
                        \o Suffixes(SliceLevels(goType, visited0, 0).n)

C6_Witness ==
    /\ pc = "GoTypeToTSType"
    /\ g = "[][]map[int]string"
    /\ SliceLevels(goType, visited0, 0).n = 2
    /\ CoreMapping = "{ [key: number]: string }"
    /\ result = "({ [key: number]: string })[][]"

\* The three legal kinds of an index-signature key.
KeyKinds == {"string", "number", "symbol"}

\* Every index signature in text s has a key of one of the three kinds.
KeysLegal(s) ==
    \A i \in 1..Len(s) :
        (i + 5 <= Len(s) /\ SubSeq(s, i, i + 5) = "[key: ")
            => \E k \in KeyKinds :
                   HasPrefix(SubSeq(s, i + 6, Len(s)), k \o "]: ")

\* The two parts of a map expression e: the text between `map[` and the
\* first `]`, and the text after it.
MapParts(e) == SplitN2(SubSeq(e, Len("map[") + 1, Len(e)), "]")

\* The last call was taken by the map rule and found a key and a value.
IsMapCall ==
    /\ pc = "GoTypeToTSType"
    /\ RuleOf(g, visited0) = "map"
    /\ Len(MapParts(g)) = 2

\* The key text of the last call's map expression.
RawKey == TrimSpace(MapParts(g)[1])

\* The mapping of key text k as the last call's map rule computes it.
KeyMapping(k) ==
    GoTypeToTSType(k, aliasMap, typeParams, structMap, typeParamMapping,
                   visited0 \cup {g}, 1).res

\* C7: every index signature of a result has key string, number or symbol;
\* an inline-record key gives string, and so does a key that is not a
\* numeric name and whose mapping, after alias resolution, is none of the
\* three kinds.
C7_KeyKinds ==
    /\ pc = "GoTypeToTSType" => KeysLegal(result)
    /\ (IsMapCall /\ HasPrefix(RawKey, "struct{"))
           => HasPrefix(result, "{ [key: string]: ")
    /\ (/\ IsMapCall
        /\ ~HasPrefix(RawKey, "struct{")
        /\ RawKey \notin numericKeys
        /\ KeyMapping(resolveKey(RawKey, {}, aliasMap, 0).key) \notin KeyKinds)
           => HasPrefix(result, "{ [key: string]: ")

C7_Witness ==
    /\ pc = "GoTypeToTSType"
    /\ IsMapCall
    /\ g = "map[bool]int"
    /\ aliasMap = EmptyMap
    /\ typeParamMapping = EmptyMap
    /\ KeyMapping("bool") = "boolean"
    /\ result = "{ [key: string]: number }"

\* The i-th name of the alias chain that starts at n.
RECURSIVE Nth(_, _)
Nth(n, i) ==
    IF i = 0 THEN n
    ELSE IF Nth(n, i - 1) \in DOMAIN aliasMap THEN aliasMap[Nth(n, i - 1)]
    ELSE Nth(n, i - 1)

\* The chain from n stops at its j-th name: the name has no entry, or maps
\* to itself, or came earlier in the chain.
ChainStops(n, j) ==
    \/ Nth(n, j) \notin DOMAIN aliasMap
    \/ aliasMap[Nth(n, j)] = Nth(n, j)
    \/ \E i \in 0..(j - 1) : Nth(n, i) = Nth(n, j)

\* The first name the chain from n stops at.
ChainEnd(n) ==
    Nth(n, CHOOSE j \in 0..Cardinality(DOMAIN aliasMap) :
               /\ ChainStops(n, j)
               /\ \A i \in 0..(j - 1) : ~ChainStops(n, i))

\* The last call's map rule resolved its key through the alias table.
IsKeyResolution ==
    /\ IsMapCall
    /\ ~HasPrefix(RawKey, "struct{")
    /\ RawKey \notin numericKeys

\* Name n is replaced by a legal key kind before the alias rule sees it.
KeyOverride(n) ==
    \/ n \in DOMAIN typeParamMapping /\ typeParamMapping[n] \in {"number", "symbol"}
    \/ isTypeParam(n, typeParams) /\ n \in {"number", "symbol"}

\* C8: the key loop of the map rule stops, for every alias table, at the
\* first name of the key's alias chain that has no entry, maps to itself or
\* was seen before, and leaves the outer visited map alone; a chain that
\* ends at a numeric type gives key number, at string gives string, and a
\* chain that ends on a cycle gives string.
C8_KeyResolution ==
    IsKeyResolution =>
        /\ ~resolveKey(RawKey, {}, aliasMap, 0).div
        /\ resolveKey(RawKey, {}, aliasMap, 0).key = ChainEnd(RawKey)
        /\ visited = visited0
        /\ (/\ ChainEnd(RawKey) \notin DOMAIN aliasMap
            /\ Unshadowed(ChainEnd(RawKey))
            /\ checkBasicTypes(ChainEnd(RawKey)) = "number")
               => HasPrefix(result, "{ [key: number]: ")
        /\ (/\ ChainEnd(RawKey) = "string"
            /\ "string" \notin DOMAIN aliasMap
            /\ Unshadowed("string"))
               => HasPrefix(result, "{ [key: string]: ")
        /\ (/\ OnAliasCycle(ChainEnd(RawKey))
            /\ \A n \in Chain(ChainEnd(RawKey), Cardinality(DOMAIN aliasMap)) :
                   ~KeyOverride(n))
               => HasPrefix(result, "{ [key: string]: ")

C8_Witness ==
    /\ IsKeyResolution
    /\ aliasMap = TestAliases
    /\ g = "map[AliasLoop1]string"
    /\ ChainEnd(RawKey) = "AliasLoop1"
    /\ OnAliasCycle("AliasLoop1")
    /\ result = "{ [key: string]: string }"

\* Text p has balanced brackets and no comma outside them: every `]` closes
\* an earlier `[`, and every `[` is closed.
RECURSIVE DepthAt(_, _)
DepthAt(p, i) ==
    IF i = 0 THEN 0
    ELSE DepthAt(p, i - 1)
            + (IF Char(p, i) = "[" THEN 1 ELSE IF Char(p, i) = "]" THEN -1 ELSE 0)

Balanced(p) ==
    /\ \A i \in 1..Len(p) : DepthAt(p, i) >= 0
    /\ DepthAt(p, Len(p)) = 0

OneParameter(p) ==
    /\ Balanced(p)
    /\ TrimSpace(p) # ""
    /\ \A i \in 1..Len(p) : Char(p, i) = "," => DepthAt(p, i) > 0

\* The last call split a text written as base[p1,...,pn].
IsWrittenSplit == pc = "SplitGenericType" /\ written # NoSplit

\* C9: for a text written as Base[P1,...,Pn] whose base has no `[` and
\* whose parameters are non-blank with balanced brackets, SplitGenericType
\* returns the base and the n parameters in order, each trimmed.
C9_SplitsAtDepthZero ==
    (/\ IsWrittenSplit
     /\ ~Contains(written.base, "[")
     /\ \A i \in DOMAIN written.params : OneParameter(written.params[i]))
        => /\ split.base = written.base
           /\ split.params = [i \in DOMAIN written.params |->
                                  TrimSpace(written.params[i])]

C9_Witness ==
    /\ IsWrittenSplit
    /\ goType = "Base[Map[K, V], K ]"
    /\ written.params = <<"Map[K, V]", " K ">>
    /\ split = [base |-> "Base", params |-> <<"Map[K, V]", "K">>]

\* Text s has a `[` with a `]` somewhere after it.
HasBracketPair(s) ==
    \E i \in 1..Len(s) : \E j \in (i + 1)..Len(s) :
        Char(s, i) = "[" /\ Char(s, j) = "]"

\* The brackets of text s enclose nothing: its first `[` is followed at once
\* by its last `]`.
EmptyBrackets(s) ==
    \E i \in 1..(Len(s) - 1) :
        /\ Char(s, i) = "[" /\ Char(s, i + 1) = "]"
        /\ \A k \in 1..(i - 1) : Char(s, k) # "["
        /\ \A k \in (i + 2)..Len(s) : Char(s, k) # "]"

NonBlank(p) == TrimSpace(p) # ""

\* C10: SplitGenericType returns the input and no parameters exactly for a
\* text without a `[` that has a `]` after it; for empty brackets it returns
\* one empty parameter; otherwise no parameter it returns is empty or
\* untrimmed, and of the balanced parameters a text was written with it
\* returns the non-blank ones.
C10_NotGenericAndEmpties ==
    pc = "SplitGenericType" =>
        /\ (split.base = goType /\ split.params = <<>>) <=> ~HasBracketPair(goType)
        /\ EmptyBrackets(goType) => split.params = <<"">>
        /\ (HasBracketPair(goType) /\ ~EmptyBrackets(goType)) =>
               \A i \in DOMAIN split.params :
                   split.params[i] # "" /\ TrimSpace(split.params[i]) = split.params[i]
        /\ (/\ IsWrittenSplit
            /\ ~Contains(written.base, "[")
            /\ ~EmptyBrackets(goType)
            /\ \A i \in DOMAIN written.params :
                   NonBlank(written.params[i]) => OneParameter(written.params[i]))
               => split.params =
                      SelectSeq([i \in DOMAIN written.params |->
                                     TrimSpace(written.params[i])], NonBlank)

C10_Witness ==
    /\ IsWrittenSplit
    /\ goType = "Base[T, ]"
    /\ written.params = <<"T", " ">>
    /\ HasBracketPair(goType)
    /\ split = [base |-> "Base", params |-> <<"T">>]

\* The mapping of expression e as a rule of the last call computes it for a
\* part of its expression: the visited map holds the call's expression.
PartMapping(e) ==
    GoTypeToTSType(e, aliasMap, typeParams, structMap, typeParamMapping,
                   visited0 \cup {g}, 1).res

\* The last call was taken by the generic rule for a text that ends with its
\* closing bracket.
IsGenericCall ==
    /\ pc = "GoTypeToTSType"
    /\ RuleOf(g, visited0) = "generic"
    /\ HasSuffix(g, "]")

\* The mappings of the parameters of instantiation e, in order.
ParamMappings(e) ==
    [i \in DOMAIN SplitGenericType(e).params |->
        PartMapping(SplitGenericType(e).params[i])]

\* C11: an instantiation Base[P1,...,Pn] whose base has no alias entry maps
\* to Base, `<`, the mappings of P1..Pn in order joined by `, `, and `>`;
\* with a fresh visited map and an expression no alias text contains, the
\* parameter mappings are those of fresh calls.
C11_GenericEmission ==
    (IsGenericCall /\ SplitGenericType(g).base \notin DOMAIN aliasMap)
        => /\ result = SplitGenericType(g).base \o "<"
                          \o Join(ParamMappings(g), ", ") \o ">"
           /\ (visited0 = {} /\ ~InAliasText(g))
                  => \A i \in DOMAIN SplitGenericType(g).params :
                         ParamMappings(g)[i] = Fresh(SplitGenericType(g).params[i]).res

C11_Witness ==
    /\ IsGenericCall
    /\ g = "Result[Result[*User]]"
    /\ visited0 = {}
    /\ SplitGenericType(g).params = <<"Result[*User]">>
    /\ result = "Result<Result<User | null>>"

\* The alias names that occur in text e.
NamesIn(e) == {m \in DOMAIN aliasMap : Contains(Despace(e), m)}

\* The alias names the expansion of the names of S can arrive at, in k steps.
RECURSIVE Reach(_, _)
Reach(S, k) ==
    IF k = 0 THEN S
    ELSE Reach(S \cup UNION {NamesIn(aliasMap[n]) : n \in S}, k - 1)

\* Alias n is not on a cycle: expanding its text never arrives at n.
NonCyclic(n) ==
    n \notin Reach(NamesIn(aliasMap[n]), Cardinality(DOMAIN aliasMap))

\* The last call was taken by the alias rule, for a name whose entry differs
\* from the name.
IsAliasCall ==
    /\ pc = "GoTypeToTSType"
    /\ RuleOf(g, visited0) = "alias"
    /\ g \in DOMAIN aliasMap
    /\ aliasMap[g] # g

\* The mapping of name e by the rules that follow the alias rule: the
\* mapping with an empty alias table.
LaterRules(e) ==
    GoTypeToTSType(e, EmptyMap, typeParams, structMap, typeParamMapping, {}, 0).res

\* C12 as stated: an alias name whose entry differs from the name maps to
\* the mapping of its underlying expression.
C12_Original == IsAliasCall => result = PartMapping(aliasMap[g])

\* C12: an alias name whose entry differs from the name maps to the mapping
\* of its underlying expression when that mapping is not empty, and as a
\* name without entry when it is empty; through a chain of aliases that are
\* not on a cycle, the result is the non-empty mapping of the chain's end.
C12_AliasChain ==
    IsAliasCall =>
        /\ PartMapping(aliasMap[g]) # "" => result = PartMapping(aliasMap[g])
        /\ PartMapping(aliasMap[g]) = "" => result = LaterRules(g)
        /\ (/\ visited0 = {}
            /\ \A n \in Chain(g, Cardinality(DOMAIN aliasMap)) \cap DOMAIN aliasMap :
                   /\ NonCyclic(n)
                   /\ firstRule(n, aliasMap, typeParams, typeParamMapping) = "alias"
            /\ Fresh(ChainEnd(g)).res # "")
               => result = Fresh(ChainEnd(g)).res

C12_Witness ==
    /\ IsAliasCall
    /\ aliasMap = TestAliases
    /\ visited0 = {}
    /\ g = "Alias3"
    /\ NonCyclic(g)
    /\ ChainEnd(g) = "string"
    /\ result = "string"

\* The last call was taken by the inline-record rule.
IsStructCall ==
    /\ pc = "GoTypeToTSType"
    /\ RuleOf(g, visited0) = "struct"

\* The field texts of inline record e: the pieces between `;` of the text
\* between `struct{` and the closing `}`, trimmed, without the blank ones.
FieldTexts(e) ==
    LET body == TrimSuffix(TrimPrefix(e, "struct{"), "}")
        pieces == Split(body, ";")
    IN  SelectSeq([i \in DOMAIN pieces |-> TrimSpace(pieces[i])], NonBlank)

\* The entry of field text f: its first token, `: `, and the mapping of the
\* remaining tokens; `unknown: any` for fewer than two tokens.
FieldEntry(f) ==
    IF Len(Fields(f)) < 2 THEN "unknown: any"
    ELSE Fields(f)[1] \o ": " \o PartMapping(Join(Tail(Fields(f)), " "))

\* C13: an inline record maps to `{ `, one entry per non-blank field text in
\* input order joined by `; `, and ` }`; an entry is the field's first token
\* with the mapping of the rest, or `unknown: any` for a field text of fewer
\* than two tokens.
C13_InlineRecord ==
    IsStructCall =>
        result = "{ " \o Join([i \in DOMAIN FieldTexts(g) |->
                                   FieldEntry(FieldTexts(g)[i])], "; ") \o " }"

C13_Witness ==
    /\ IsStructCall
    /\ g = "struct{ X int; ; JustField; Y []string }"
    /\ FieldTexts(g) = <<"X int", "JustField", "Y []string">>
    /\ result = "{ X: number; unknown: any; Y: string[] }"

C15_NoErrorOutcome ==
    pc = "GoTypeToTSType" =>
        /\ ~div
        /\ result \in STRING
        /\ (RuleOf(g, visited0) = "map"
                /\ ~Contains(SubSeq(g, Len("map[") + 1, Len(g)), "]"))
               => result = "any"
        /\ (/\ RuleOf(g, visited0) = "alias"
            /\ g \notin DOMAIN aliasMap
            /\ Contains(g, "[") /\ ~Contains(g, "]"))
               => result = "any"

C15_Witness ==
    /\ pc = "GoTypeToTSType"
    /\ g = "map[string"
    /\ RuleOf(g, visited0) = "map"
    /\ ~div
    /\ result = "any"

\* The text of the i-th child of the node of the last ExprToString call.
KidText(i) == ExprToString(expr.kids[i])

\* The text of a field of a record node: its names joined by `, `, a blank
\* and its type; the type alone for a field without names.
FieldText(f) ==
    IF f.names = <<>> THEN ExprToString(f.kids[1])
    ELSE Join(SelectSeq(f.names, notNil), ", ") \o " " \o ExprToString(f.kids[1])

\* The node shapes ExprToString has a case for.
KnownShapes ==
    {"Ident", "StarExpr", "SelectorExpr", "ArrayType", "MapType", "IndexExpr",
     "IndexListExpr", "InterfaceType", "FuncType", "StructType"}

\* C16: ExprToString composes the text of a node from the texts of its
\* children, shape by shape, and gives the empty string for every other
\* shape.
C16_ExprToString ==
    pc = "ExprToString" =>
        /\ expr.kind = "Ident" => text = expr.name
        /\ expr.kind = "StarExpr" => text = "*" \o KidText(1)
        /\ expr.kind = "SelectorExpr" => text = KidText(1) \o "." \o expr.name
        /\ expr.kind = "ArrayType" => text = "[]" \o KidText(1)
        /\ expr.kind = "MapType" => text = "map[" \o KidText(1) \o "]" \o KidText(2)
        /\ expr.kind = "IndexExpr" => text = KidText(1) \o "[" \o KidText(2) \o "]"
        /\ expr.kind = "IndexListExpr" =>
               text = KidText(1) \o "["
                         \o Join([i \in 1..(Len(expr.kids) - 1) |-> KidText(i + 1)], ", ")
                         \o "]"
        /\ expr.kind = "InterfaceType" => text = "interface{}"
        /\ expr.kind = "FuncType" => text = "func"
        /\ (expr.kind = "StructType" /\ expr.kids = <<>>) => text = "struct{}"
        /\ (expr.kind = "StructType" /\ expr.kids # <<>>) =>
               text = "struct{ "
                         \o Join([i \in DOMAIN expr.kids |-> FieldText(expr.kids[i])], "; ")
                         \o " }"
        /\ expr.kind \notin KnownShapes => text = ""

C16_Witness ==
    /\ pc = "ExprToString"
    /\ expr = IndexListExpr(Ident("Base"), <<StructType(<<>>), Ident("T")>>)
    /\ text = "Base[struct{}, T]"

\* C17: Convert calls extraction once and generation at most once; a failed
\* extraction gives an error with the text `failed to parse Go files` that
\* wraps the cause, and generation is not called; a failed generation after
\* a successful extraction gives an error with the text `failed to generate
\* TypeScript`; the error is nil only when both steps succeeded.
C17_Convert ==
    pc = "Convert" =>
        /\ converted.parseCalls = 1
        /\ converted.generateCalls <= 1
        /\ convertArgs.parseErr # NilError =>
               /\ Contains(converted.err.msg, "failed to parse Go files")
               /\ converted.err.cause = convertArgs.parseErr.msg
               /\ converted.generateCalls = 0
        /\ (convertArgs.parseErr = NilError /\ convertArgs.generateErr # NilError) =>
               /\ Contains(converted.err.msg, "failed to generate TypeScript")
               /\ converted.err.cause = convertArgs.generateErr.msg
               /\ converted.generateCalls = 1
        /\ converted.err = NilError <=>
               (convertArgs.parseErr = NilError /\ convertArgs.generateErr = NilError)

C17_Witness ==
    /\ pc = "Convert"
    /\ convertArgs.inputDir = "bad"
    /\ convertArgs.parseErr # NilError
    /\ convertArgs.generateErr # NilError
    /\ converted.generateCalls = 0
    /\ converted.err.msg =
           "failed to parse Go files in \"bad\": bad.go:3:7: expected '(', found thisIsBad"

\* The positions of tag t at which a json entry starts.
JSONStarts(t) ==
    {i \in 1..Len(t) : i + 5 <= Len(t) /\ SubSeq(t, i, i + 5) = "json:\""}

\* The text of tag t after the opening quote of its first json entry.
AfterJSONKey(t) ==
    SubSeq(t, (CHOOSE i \in JSONStarts(t) : \A j \in JSONStarts(t) : i <= j) + 6,
           Len(t))

\* Text s up to its first occurrence of character c; all of s without one.
Before(s, c) ==
    IF \E i \in 1..Len(s) : Char(s, i) = c
    THEN SubSeq(s, 1, (CHOOSE i \in 1..Len(s) :
                          Char(s, i) = c /\ \A j \in 1..(i - 1) : Char(s, j) # c) - 1)
    ELSE s

\* C18: for a tag with a json entry whose quoted value is closed,
\* ExtractJSONTag returns the part of the first entry's value before its
\* first comma, and the empty string when the value is `-`; it returns the
\* empty string for a tag without json entry and for a missing closing quote.
C18_ExtractJSONTag ==
    pc = "ExtractJSONTag" =>
        /\ JSONStarts(tag) = {} => jsonName = ""
        /\ (JSONStarts(tag) # {} /\ ~Contains(AfterJSONKey(tag), "\"")) => jsonName = ""
        /\ (JSONStarts(tag) # {} /\ Contains(AfterJSONKey(tag), "\"")) =>
               jsonName = IF Before(AfterJSONKey(tag), "\"") = "-" THEN ""
                      ELSE Before(Before(AfterJSONKey(tag), "\""), ",")

C18_Witness ==
    /\ pc = "ExtractJSONTag"
    /\ tag = "xml:\"-\" json:\"other,omitempty\""
    /\ AfterJSONKey(tag) = "other,omitempty\""
    /\ jsonName = "other"

\* The literal expressions and the texts they map to.
Literals == {"[]byte", "struct{}", "func", "*time.Time", "*url.URL"}

LiteralText(e) ==
    CASE e = "[]byte" -> "Uint8Array"
      [] e = "struct{}" -> "any"
      [] e = "func" -> "(...args: any[]) => any"
      [] e = "*time.Time" -> "string"
      [] e = "*url.URL" -> "string"

\* C19: the five literal expressions map to their fixed texts whatever the
\* alias table, the enclosing parameters and the record table hold, when
\* the expression is not in the visited map and not a substitution key.
C19_Literals ==
    (/\ pc = "GoTypeToTSType"
     /\ g \in Literals
     /\ g \notin visited0
     /\ g \notin DOMAIN typeParamMapping)
        => result = LiteralText(g)

C19_Witness ==
    /\ pc = "GoTypeToTSType"
    /\ g = "*url.URL"
    /\ aliasMap = OddAliases
    /\ g \in DOMAIN aliasMap
    /\ isTypeParam(g, typeParams)
    /\ result = "string"

\* The position in text s of the `]` that closes a bracket opened before
\* the text: the first position where the brackets of the text before it
\* are balanced and a `]` follows; 0 when there is none.
MatchingClose(s) ==
    LET closes == {i \in 1..Len(s) :
                      /\ Char(s, i) = "]"
                      /\ DepthAt(s, i - 1) = 0
                      /\ \A j \in 1..(i - 1) : DepthAt(s, j) >= 0}
    IN  IF closes = {} THEN 0 ELSE MinOf(closes)

\* The text of map expression e after `map[`.
MapInner(e) == SubSeq(e, Len("map[") + 1, Len(e))

\* The value text of map expression e: the text after the `]` that matches
\* the `[` of `map[`.
MatchedValue(e) ==
    SubSeq(MapInner(e), MatchingClose(MapInner(e)) + 1, Len(MapInner(e)))

\* The mapping of `map[string]V` for value text V, in the last call's tables.
StringKeyed(V) ==
    GoTypeToTSType("map[string]" \o V, aliasMap, typeParams, structMap,
                   typeParamMapping, visited0, 0).res

\* C20: for a map expression whose `map[` has a matching `]`, the value is
\* the text after that bracket and is mapped as for `map[string]V`: the
\* result is the mapping of `map[string]V` with the key kind in place of
\* `string`.
C20_MatchingBracket ==
    (/\ pc = "GoTypeToTSType"
     /\ RuleOf(g, visited0) = "map"
     /\ MatchingClose(MapInner(g)) > 0
     /\ RuleOf("map[string]" \o MatchedValue(g), visited0) = "map")
        => \E k \in KeyKinds :
               result = "{ [key: " \o k \o "]: "
                           \o SubSeq(StringKeyed(MatchedValue(g)),
                                     Len("{ [key: string]: ") + 1,
                                     Len(StringKeyed(MatchedValue(g))))

\* Text s, as a whole, is an identifier directly followed by a bracketed
\* parameter list that is not blank.
IsInstantiationShape(s) ==
    \E i \in 2..(Len(s) - 1) :
        /\ \A k \in 1..(i - 1) : Char(s, k) \in WordChar
        /\ Char(s, i) = "["
        /\ Char(s, Len(s)) = "]"
        /\ NonBlank(SubSeq(s, i + 1, Len(s) - 1))

\* C21: the generic rule takes an expression only when the whole expression
\* is an identifier directly followed by a bracketed, non-blank parameter
\* list, and no result holds an instantiation without parameters (`<>`).
C21_GenericShape ==
    pc = "GoTypeToTSType" =>
        /\ RuleOf(g, visited0) = "generic" => IsInstantiationShape(g)
        /\ ~Contains(result, "<>")

\* The mapping of the value text of the last call's map expression, as the
\* map rule computes it.
ValueMapping == PartMapping(MapParts(g)[2])

\* Text v holds a union marker, has no array suffix and no opening
\* parenthesis in front.
NeedsParentheses(v) ==
    Contains(v, "|") /\ ~HasSuffix(v, "[]") /\ ~HasPrefix(v, "(")

\* C22: the result of a map expression is `{ [key: K]: V }` where V is the
\* mapping of the value text, in parentheses exactly when that mapping holds
\* a union marker and neither ends with `[]` nor starts with `(`.
C22_MapValueParentheses ==
    IsMapCall =>
        \E k \in KeyKinds :
            result = "{ [key: " \o k \o "]: "
                        \o (IF NeedsParentheses(ValueMapping)
                            THEN "(" \o ValueMapping \o ")"
                            ELSE ValueMapping)
                        \o " }"

C22_Witness ==
    /\ IsMapCall
    /\ g = "map[string]*int"
    /\ ValueMapping = "number | null"
    /\ NeedsParentheses(ValueMapping)
    /\ result = "{ [key: string]: (number | null) }"

\* The base name of the last call's instantiation.
BaseName == SplitGenericType(g).base

\* The alias table maps the base name to something other than the name.
BaseIsAliased == BaseName \in DOMAIN aliasMap /\ aliasMap[BaseName] # BaseName

\* C23: in an instantiation whose base the alias table maps to a different
\* text, the emitted base is the mapping of that text (for a fresh visited
\* map and an expression no alias text contains, its mapping by a fresh
\* call); a base without entry, or mapped to itself, is emitted unchanged.
C23_GenericBaseAlias ==
    (pc = "GoTypeToTSType" /\ RuleOf(g, visited0) = "generic") =>
        /\ BaseIsAliased
               => result = PartMapping(aliasMap[BaseName]) \o "<"
                              \o Join(ParamMappings(g), ", ") \o ">"
        /\ (BaseIsAliased /\ visited0 = {} /\ ~InAliasText(g))
               => PartMapping(aliasMap[BaseName]) = Fresh(aliasMap[BaseName]).res
        /\ ~BaseIsAliased
               => result = BaseName \o "<" \o Join(ParamMappings(g), ", ") \o ">"

C23_Witness ==
    /\ pc = "GoTypeToTSType"
    /\ RuleOf(g, visited0) = "generic"
    /\ g = "MyAlias[T]"
    /\ aliasMap = TestAliases
    /\ visited0 = {}
    /\ typeParams = <<"T">>
    /\ BaseIsAliased
    /\ Fresh(aliasMap[BaseName]).res = "string"
    /\ result = "string<T>"

\* Text e is an identifier, plain or qualified.
IsIdentifier(e) ==
    e # "" /\ \A i \in 1..Len(e) : Char(e, i) \in WordChar \cup {"."}

\* Text e is a name of the basic-type table.
IsBasicName(e) == e = "string" \/ checkBasicTypes(e) # e

\* The last call mapped a basic-type name that the cycle guard let through.
IsBasicNameCall ==
    /\ pc = "GoTypeToTSType"
    /\ IsIdentifier(g)
    /\ IsBasicName(g)
    /\ g \notin visited0

\* C24 as stated: a basic-type name maps to its substitution text; without
\* one, to itself when it is an enclosing parameter; without either, to the
\* mapping of its alias text; and by the basic table otherwise.
C24_Original ==
    IsBasicNameCall =>
        /\ g \in DOMAIN typeParamMapping => result = typeParamMapping[g]
        /\ (g \notin DOMAIN typeParamMapping /\ isTypeParam(g, typeParams))
               => result = g
        /\ (/\ g \notin DOMAIN typeParamMapping
            /\ ~isTypeParam(g, typeParams)
            /\ g \in DOMAIN aliasMap)
               => result = PartMapping(aliasMap[g])
        /\ (/\ g \notin DOMAIN typeParamMapping
            /\ ~isTypeParam(g, typeParams)
            /\ g \notin DOMAIN aliasMap)
               => result = checkBasicTypes(g)

\* C24: a basic-type name maps to its substitution text, verbatim; without
\* one, to itself when it is an enclosing parameter; without either, to the
\* mapping of its alias text when that mapping is not empty; and by the
\* basic table when it has no alias entry or the mapping of the entry is
\* empty.
C24_FirstMatchWins ==
    IsBasicNameCall =>
        /\ g \in DOMAIN typeParamMapping => result = typeParamMapping[g]
        /\ (g \notin DOMAIN typeParamMapping /\ isTypeParam(g, typeParams))
               => result = g
        /\ (/\ g \notin DOMAIN typeParamMapping
            /\ ~isTypeParam(g, typeParams)
            /\ g \in DOMAIN aliasMap
            /\ PartMapping(aliasMap[g]) # "")
               => result = PartMapping(aliasMap[g])
        /\ (/\ g \notin DOMAIN typeParamMapping
            /\ ~isTypeParam(g, typeParams)
            /\ (g \in DOMAIN aliasMap => PartMapping(aliasMap[g]) = ""))
               => result = checkBasicTypes(g)

C24_Witness ==
    /\ IsBasicNameCall
    /\ g = "bool"
    /\ g \in DOMAIN typeParamMapping
    /\ isTypeParam(g, typeParams)
    /\ g \in DOMAIN aliasMap
    /\ typeParamMapping[g] = "int"
    /\ result = "int"

\* The result of the last call's arguments with record table sm in place of
\* the call's.
WithStructMap(sm) ==
    GoTypeToTSType(goType, aliasMap, typeParams, sm, typeParamMapping, visited0, 0).res

\* Text e is a plain identifier: letters, digits and `_` only.
IsPlainIdentifier(e) == e # "" /\ \A i \in 1..Len(e) : Char(e, i) \in WordChar

IsSliceCall ==
    /\ pc = "GoTypeToTSType"
    /\ RuleOf(g, visited0) = "slice"

\* The mapping of the element text of the last call's slice expression.
ElemMapping == PartMapping(SubSeq(g, Len("[]") + 1, Len(g)))

\* C26: a slice maps to the mapping of its element followed by `[]`, with
\* parentheses around the element only when it starts as an index
\* signature: an element that is a nullable union gets none; and a map value
\* whose mapping ends with `[]` is emitted without parentheses.
C26_SliceOfUnionBare ==
    /\ IsSliceCall =>
           /\ HasPrefix(ElemMapping, "{ [key:")
                  => result = "(" \o ElemMapping \o ")" \o "[]"
           /\ ~HasPrefix(ElemMapping, "{ [key:")
                  => result = ElemMapping \o "[]"
    /\ (IsMapCall /\ HasSuffix(ValueMapping, "[]"))
           => HasSuffix(result, "]: " \o ValueMapping \o " }")

C26_Witness ==
    /\ IsSliceCall
    /\ g = "[]*MyAlias"
    /\ aliasMap = TestAliases
    /\ ElemMapping = "string | null"
    /\ result = "string | null[]"

\* The pointer-to-interface names of the basic-type table.
PointerToInterface == {"*interface{}", "*interface {}"}

\* C27: the pointer-to-interface names of the basic-type table map to
\* `any`, the text `interface{}` maps to, when no earlier rule (cycle guard,
\* substitution, enclosing parameter) takes them.
C27_PointerToInterface ==
    (/\ pc = "GoTypeToTSType"
     /\ g \in PointerToInterface
     /\ g \notin visited0
     /\ g \notin DOMAIN typeParamMapping
     /\ ~isTypeParam(g, typeParams))
        => /\ checkBasicTypes(g) = "any"
           /\ result = PartMapping("interface{}")
           /\ result = "any"

\* The number of braces open after the first i characters of text p.
RECURSIVE BraceDepthAt(_, _)
BraceDepthAt(p, i) ==
    IF i = 0 THEN 0
    ELSE BraceDepthAt(p, i - 1)
            + (IF Char(p, i) = "{" THEN 1 ELSE IF Char(p, i) = "}" THEN -1 ELSE 0)

\* Every `}` of text p closes an earlier `{`, and every `{` is closed.
BracesBalanced(p) ==
    /\ \A i \in 1..Len(p) : BraceDepthAt(p, i) >= 0
    /\ BraceDepthAt(p, Len(p)) = 0

\* The pieces of text s between the `;` that stand outside braces, from
\* character i on, buf being the piece read so far.
RECURSIVE TopLevelSplit(_, _, _, _)
TopLevelSplit(s, i, buf, parts) ==
    IF i > Len(s) THEN Append(parts, buf)
    ELSE IF Char(s, i) = ";" /\ BraceDepthAt(s, i - 1) = 0
         THEN TopLevelSplit(s, i + 1, "", Append(parts, buf))
         ELSE TopLevelSplit(s, i + 1, buf \o Char(s, i), parts)

\* The non-blank pieces of s between top-level `;`, trimmed.
TopLevelPieces(s) ==
    SelectSeq([i \in DOMAIN TopLevelSplit(s, 1, "", <<>>) |->
                   TrimSpace(TopLevelSplit(s, 1, "", <<>>)[i])], NonBlank)

\* The fields an inline record expression e declares at its outer level.
DeclaredFields(e) ==
    TopLevelPieces(SubSeq(e, Len("struct{") + 1, Len(e) - 1))

\* The entries of record text r at its outer level.
Entries(r) == TopLevelPieces(SubSeq(r, Len("{") + 1, Len(r) - 1))

\* The type text of field text f: what follows its first token.
FieldType(f) == Join(Tail(Fields(f)), " ")

\* C28: an inline record with balanced braces maps to a text with balanced
\* braces that has one `name: type` entry per field declared at the outer
\* level; a field whose type is an inline record has the mapping of that
\* record as its type.
C28_NestedRecords ==
    (IsStructCall /\ HasSuffix(g, "}") /\ BracesBalanced(g)) =>
        /\ BracesBalanced(result)
        /\ Len(Entries(result)) = Len(DeclaredFields(g))
        /\ \A i \in DOMAIN DeclaredFields(g) :
               (/\ Len(Fields(DeclaredFields(g)[i])) >= 2
                /\ HasPrefix(FieldType(DeclaredFields(g)[i]), "struct{"))
                   => Entries(result)[i]
                          = Fields(DeclaredFields(g)[i])[1] \o ": "
                               \o PartMapping(FieldType(DeclaredFields(g)[i]))

\* The struct types among the syntax nodes whose normalized text is the
\* expression of the last call.
RecordNodes == {e \in AstExprs : e.kind = "StructType" /\ ExprToString(e) = g}

\* The name of entry x of a record text: what stands before its `: `.
EntryName(x) == SubSeq(x, 1, Index(x, ": "))

\* C29: when the mapped expression is the normalized text of a struct type,
\* every name of a field that declares several names has an entry
\* `name: type` with the mapping of the field's normalized type, and no
\* entry has a comma in its name.
C29_SeveralNames ==
    IsStructCall =>
        \A e \in RecordNodes :
            /\ \A i \in DOMAIN e.kids :
                   Len(SelectSeq(e.kids[i].names, notNil)) >= 2 =>
                       \A k \in DOMAIN SelectSeq(e.kids[i].names, notNil) :
                           \E j \in DOMAIN Entries(result) :
                               Entries(result)[j]
                                   = SelectSeq(e.kids[i].names, notNil)[k] \o ": "
                                       \o PartMapping(ExprToString(e.kids[i].kids[1]))
            /\ \A j \in DOMAIN Entries(result) :
                   ~Contains(EntryName(Entries(result)[j]), ",")

====
